---- MODULE Spec2Model ----
(***************************************************************************)
(* Model of colorcore/routing.py: the command-line Router and the JSON/RPC *)
(* front end RpcServer, on one cooperative event loop.                     *)
(*                                                                         *)
(* Names (operation names, request paths) are sequences of one-character   *)
(* strings, so that the path regular expression and the private-prefix     *)
(* test are computed character by character as the code computes them.     *)
(***************************************************************************)
EXTENDS Integers, Sequences, FiniteSets, TLC

VARIABLES
    controller,      \* the operation-provider class handed to Router / RpcServer
    configuration,   \* Configuration: [rpc_enabled]
    payload_type,    \* type of the value payload.read() returns in this build
    router,          \* what Router.__init__ built: [ok, subparsers, choices]
    cli_pc,          \* position of the single Router.parse call of Program.execute
    cli_args,        \* the argument vector given to parse
    cli_run,         \* the operation the CLI decorator is running, or None
    output,          \* lines written to Router.output
    usage_printed,   \* parser.print_usage was called
    cli_exc,         \* the failure that propagated out of parse, or None
    socket_bound,    \* event_loop.create_server completed
    loop_state,      \* "stopped" | "run_until_complete" | "run_forever"
    loop_runs,       \* how many times the event loop was started
    running,         \* the request whose coroutine the loop is running, or 0
    next_ctx,        \* identity of the next controller instance constructed
    contexts,        \* the controller instances that are alive
    passed,          \* identities of the instances ever passed to an operation
    calls,           \* how many operation calls bound their arguments so far
    invocations,     \* the operation calls in progress
    rendered,        \* the calls made to transaction formatters, in order
    req              \* per RPC request: the state of its handle_request coroutine

vars == << controller, configuration, payload_type, router, cli_pc, cli_args,
           cli_run, output, usage_printed, cli_exc, socket_bound, loop_state,
           loop_runs, running, next_ctx, contexts, passed, calls, invocations,
           rendered, req >>

cliVars == << cli_pc, cli_args, cli_run, output, usage_printed, cli_exc,
              socket_bound, loop_state, loop_runs >>

envVars == << controller, configuration, payload_type, router >>

\* the state of the RPC requests and of the operation contexts
rpcVars == << running, next_ctx, contexts, passed, calls, invocations, req >>

(***************************************************************************)
(* Bounds                                                                  *)
(***************************************************************************)
\* number of RPC requests the server receives
NumRequests == 2

\* number of calls made to transaction formatters
MaxCalls == 2

Requests == 1..NumRequests

None == [none |-> TRUE]

(***************************************************************************)
(* Names and characters                                                    *)
(***************************************************************************)
Letters == {"a","b","c","d","e","f","g","h","i","j","k","l","m","n","o","p",
            "q","r","s","t","u","v","w","x","y","z"}
Digits == {"0","1","2","3","4","5","6","7","8","9"}

\* the characters the regular expression class \w matches
WordChars == Letters \cup Digits \cup {"_"}

ISSUE == <<"i","s","s","u","e">>
PRIVATE == <<"_","p","r","i","v">>
MRO == <<"m","r","o">>
SERVER == <<"s","e","r","v","e","r">>
ABSENT == <<"n","o","p","e">>
SEND == <<"s","e","n","d">>

(***************************************************************************)
(* The operation-provider (colorcore.operations.Controller or any class    *)
(* given to Router): its attributes in the name order inspect.getmembers   *)
(* lists them.  "function" members are what inspect.isfunction accepts;    *)
(* mro is the attribute every class inherits from type, not a function.    *)
(***************************************************************************)
NoDefault == [empty |-> TRUE]

\* the parameters of an operation, as inspect.signature lists them; they are
\* ordinary (positional-or-keyword) parameters
Param(n) == [name |-> n, kind |-> "POSITIONAL_OR_KEYWORD", default |-> NoDefault]
OptParam(n, d) ==
    [name |-> n, kind |-> "POSITIONAL_OR_KEYWORD",
     default |-> [empty |-> FALSE, value |-> d]]

IssueMember ==
    [name |-> ISSUE, kind |-> "function",
     params |-> << Param("self"), Param("a"), OptParam("b", "5") >>]
PrivateMember ==
    [name |-> PRIVATE, kind |-> "function", params |-> << Param("self") >>]
MroMember ==
    [name |-> MRO, kind |-> "attribute", params |-> << >>]
SendMember ==
    [name |-> SEND, kind |-> "function",
     params |-> << Param("self"), Param("a"), Param("c"), OptParam("b", "5") >>]
ServerMember ==
    [name |-> SERVER, kind |-> "function", params |-> << Param("self") >>]

PlainProvider == << PrivateMember, IssueMember, MroMember, SendMember >>
ServerProvider == << PrivateMember, IssueMember, MroMember, SendMember, ServerMember >>

Providers == {PlainProvider, ServerProvider}

\* getattr(self.controller, operation_name, None)
GetAttr(cls, name) ==
    IF \E i \in DOMAIN cls : cls[i].name = name
    THEN cls[CHOOSE i \in DOMAIN cls : cls[i].name = name]
    ELSE None

\* inspect.getmembers(self.controller, predicate=inspect.isfunction)
GetMembers(cls) == SelectSeq(cls, LAMBDA m : m.kind = "function")

(***************************************************************************)
(* Failures                                                                *)
(***************************************************************************)
Exc(c, b, t) == [cls |-> c, base |-> b, text |-> t]

ControllerErrorExc == Exc("ControllerError", "ControllerError", "insufficient funds")
BuilderErrorExc == Exc("DustOutputError", "TransactionBuilderError", "dust")
BodyTypeErrorExc == Exc("TypeError", "TypeError", "unsupported operand")
CallTypeErrorExc == Exc("TypeError", "TypeError", "bad call arguments")
DumpTypeErrorExc == Exc("TypeError", "TypeError", "not JSON serializable")
OtherExc == Exc("KeyError", "Exception", "boom")
ConnectionExc == Exc("ConnectionResetError", "Exception", "connection lost")
BindExc == Exc("OSError", "Exception", "address already in use")
SystemExitExc == Exc("SystemExit", "BaseException", "2")

\* how an operation that was called with matching arguments can end
Outcomes ==
    { [kind |-> "return", value |-> "plain"],
      [kind |-> "return", value |-> "transaction"],
      [kind |-> "raise", exc |-> ControllerErrorExc],
      [kind |-> "raise", exc |-> BuilderErrorExc],
      [kind |-> "raise", exc |-> BodyTypeErrorExc],
      [kind |-> "raise", exc |-> OtherExc] }

\* json.dumps(data): a raw ledger transaction is not JSON serializable
JsonSerializable(value) == value # "transaction"

(***************************************************************************)
(* Router.get_transaction_formatter.  A format is a Python value: a str or *)
(* a list of str; only the str 'json' compares equal to 'json'.            *)
(***************************************************************************)
Str(s) == [t |-> "str", v |-> s]
List(l) == [t |-> "list", v |-> l]

\* as get_transaction_formatter, but the comparison ignores case
get_transaction_formatter_caseless(format) ==
    IF format.t = "str" /\ format.v \in {"json", "JSON"} THEN "json" ELSE "raw"

\* the closure returned: the one of the 'json' branch or the one of the else
\* branch
get_transaction_formatter(format) ==
    IF format.t = "str" /\ format.v = "json" THEN "json" ELSE "raw"

(***************************************************************************)
(* Values given to a formatter.  Bytes are sequences of integers 0..255.   *)
(***************************************************************************)
PyInt(n) == [t |-> "int", v |-> n]
PyNone == [t |-> "NoneType", v |-> << >>]

COutPoint(hash, n) == [hash |-> hash, n |-> n]
CTxIn(prevout, scriptSig, nSequence) ==
    [prevout |-> prevout, scriptSig |-> scriptSig, nSequence |-> nSequence]
CTxOut(nValue, scriptPubKey) == [nValue |-> nValue, scriptPubKey |-> scriptPubKey]
CTransaction(vin, vout, nLockTime, nVersion) ==
    [t |-> "CTransaction",
     v |-> [vin |-> vin, vout |-> vout, nLockTime |-> nLockTime, nVersion |-> nVersion]]

\* isinstance(transaction, bitcoin.core.CTransaction)
IsTransaction(value) == value.t = "CTransaction"

HexDigits == << "0","1","2","3","4","5","6","7","8","9","a","b","c","d","e","f" >>

RECURSIVE b2x(_)
\* bitcoin.core.b2x: two hex characters per byte
b2x(bytes) ==
    IF bytes = << >> THEN << >>
    ELSE << HexDigits[(bytes[1] \div 16) + 1], HexDigits[(bytes[1] % 16) + 1] >>
         \o b2x(Tail(bytes))

Reverse(bytes) == [i \in DOMAIN bytes |-> bytes[Len(bytes) + 1 - i]]

\* bitcoin.core.b2lx: the hex text of the bytes in reverse order
b2lx(bytes) == b2x(Reverse(bytes))

RECURSIVE LittleEndian(_, _)
\* struct.pack of an unsigned integer of `width` bytes, little endian
LittleEndian(n, width) ==
    IF width = 0 THEN << >>
    ELSE << n % 256 >> \o LittleEndian(n \div 256, width - 1)

\* a length-prefixed byte string (lengths below 253 take one byte)
VarBytes(bytes) == << Len(bytes) >> \o bytes

RECURSIVE Concat(_)
Concat(seqs) == IF seqs = << >> THEN << >> ELSE seqs[1] \o Concat(Tail(seqs))

\* CTransaction.serialize(): version, inputs, outputs, lock time
serialize(tx) ==
    LET txin(i) == tx.vin[i].prevout.hash \o LittleEndian(tx.vin[i].prevout.n, 4)
                    \o VarBytes(tx.vin[i].scriptSig)
                    \o LittleEndian(tx.vin[i].nSequence, 4)
        txout(i) == LittleEndian(tx.vout[i].nValue, 8)
                     \o VarBytes(tx.vout[i].scriptPubKey)
    IN  LittleEndian(tx.nVersion, 4)
        \o << Len(tx.vin) >> \o Concat([i \in DOMAIN tx.vin |-> txin(i)])
        \o << Len(tx.vout) >> \o Concat([i \in DOMAIN tx.vout |-> txout(i)])
        \o LittleEndian(tx.nLockTime, 4)

\* the closure get_transaction_formatter returned, applied to a value
get_transaction_json(closure, transaction) ==
    IF closure = "json"
    THEN IF IsTransaction(transaction)
         THEN LET tx == transaction.v
              IN  [t |-> "dict",
                   v |-> [version |-> tx.nVersion,
                          locktime |-> tx.nLockTime,
                          vin |-> [i \in DOMAIN tx.vin |->
                                     [txid |-> b2lx(tx.vin[i].prevout.hash),
                                      vout |-> tx.vin[i].prevout.n,
                                      sequence |-> tx.vin[i].nSequence,
                                      scriptSig |-> [hex |-> b2x(tx.vin[i].scriptSig)]]],
                          vout |-> [i \in DOMAIN tx.vout |->
                                     [value |-> tx.vout[i].nValue,
                                      n |-> i - 1,
                                      scriptPubKey |->
                                          [hex |-> b2x(tx.vout[i].scriptPubKey)]]]]]
         ELSE transaction
    ELSE IF IsTransaction(transaction)
         THEN Str(b2x(serialize(transaction.v)))
         ELSE transaction

\* the format strings formatters are selected with
Formats == { Str("json"), Str("raw"), Str("hex"), Str("JSON"), Str("") }

\* the values formatters are applied to
Values ==
    { PyInt(42), Str("abc"), PyNone,
      CTransaction(<< CTxIn(COutPoint(<< 1, 171 >>, 0), << 81 >>, 2147483647) >>,
                   << CTxOut(600, << 118, 169 >>) >>, 0, 1),
      CTransaction(<< >>,
                   << CTxOut(0, << >>), CTxOut(70000, << 106 >>) >>, 3, 2) }

(***************************************************************************)
(* Router.__init__ and Router._create_subparser                            *)
(***************************************************************************)
\* the argparse arguments of one operation subcommand
_create_subparser(func) ==
    LET declared == SelectSeq(func.params,
                        LAMBDA p : p.name # "self" /\ p.kind = "POSITIONAL_OR_KEYWORD")
        own == [i \in DOMAIN declared |->
                  IF declared[i].default = NoDefault
                  THEN [name |-> declared[i].name, positional |-> TRUE,
                        default |-> NoDefault]
                  ELSE [name |-> declared[i].name, positional |-> FALSE,
                        default |-> declared[i].default]]
    IN  own \o << [name |-> "txformat", positional |-> FALSE,
                   default |-> [empty |-> FALSE, value |-> "json"]] >>

\* the name test of the loop over the provider's functions
IsPublicName(name) == name[1] # "_"

\* the add_parser calls of Router.__init__, in order
Subparsers(cls) ==
    LET members == SelectSeq(GetMembers(cls), LAMBDA m : IsPublicName(m.name))
    IN  << [name |-> SERVER, func |-> "_run_rpc_server", function |-> None,
            arguments |-> << >>] >>
        \o [i \in DOMAIN members |->
              [name |-> members[i].name, func |-> "_execute_operation",
               function |-> members[i],
               arguments |-> _create_subparser(members[i])]]

\* argparse's name -> parser map: a later add_parser of the same name replaces
\* the earlier one
Choice(subparsers, name) ==
    LET hits == {i \in DOMAIN subparsers : subparsers[i].name = name}
    IN  IF hits = {} THEN None
        ELSE subparsers[CHOOSE i \in hits : \A j \in hits : j <= i]

HasConflict(subparsers) ==
    \E i, j \in DOMAIN subparsers : i # j /\ subparsers[i].name = subparsers[j].name

\* Router.__init__: argparse either accepts the duplicate subcommand name
\* (before Python 3.11) or raises ArgumentError from add_parser (3.11 on)
RouterBuilt(cls) ==
    { [ok |-> TRUE, subparsers |-> Subparsers(cls)] }
    \cup IF HasConflict(Subparsers(cls))
         THEN { [ok |-> FALSE, subparsers |-> Subparsers(cls)] }
         ELSE { }

(***************************************************************************)
(* Controller construction and operation calls                             *)
(***************************************************************************)
\* self.controller(configuration, cache_factory, formatter, event_loop)
NewController(id, owner, format) ==
    [id |-> id, owner |-> owner,
     configuration |-> "configuration", cache_factory |-> "cache_factory",
     event_loop |-> "event_loop",
     tx_parser |-> [closure |-> id, format |-> get_transaction_formatter(format)]]

\* as ControllerId, but one controller instance is kept and handed out again
ControllerId_shared(n) == 1

\* the identity of the instance a constructor call returns
ControllerId(n) == n

\* Python's binding of operation(controller, **kwargs): keyword names must be
\* str, must name a parameter after the first, and every parameter without a
\* default must be given
BindsOk(member, keys) ==
    /\ member.kind = "function"
    /\ Len(member.params) >= 1
    /\ LET rest == Tail(member.params)
           names == {rest[i].name : i \in DOMAIN rest}
       IN  /\ \A k \in keys : k.type = "str" /\ k.name \in names
           /\ \A i \in DOMAIN rest :
                rest[i].default = NoDefault
                    => [type |-> "str", name |-> rest[i].name] \in keys

Invocation(by, ctx, op, keys) ==
    [by |-> by, ctx |-> ctx, operation |-> op, kwargs |-> keys]

(***************************************************************************)
(* Command line                                                            *)
(***************************************************************************)
\* sys.argv[1:]: a subcommand, positional values and --flag values
Argv(sub, pos, flags) == [sub |-> sub, positional |-> pos, flags |-> flags]

CliInputs ==
    { Argv(<< >>, << >>, {}),
      Argv(SERVER, << >>, {}),
      Argv(ISSUE, << "1" >>, {}),
      Argv(ISSUE, << "1" >>, {<< "b", "9" >>}),
      Argv(ISSUE, << "1" >>, {<< "txformat", "raw" >>}),
      Argv(ISSUE, << >>, {}),
      Argv(SEND, << "1", "2" >>, {}),
      Argv(SEND, << "1", "2" >>, {<< "b", "9" >>, << "txformat", "raw" >>}),
      Argv(PRIVATE, << >>, {}) }

Positionals(arguments) == SelectSeq(arguments, LAMBDA a : a.positional)

\* argparse accepts the vector for the subcommand's arguments
ArgsAccepted(arguments, argv) ==
    /\ Len(argv.positional) = Len(Positionals(arguments))
    /\ \A f \in argv.flags :
          \E i \in DOMAIN arguments :
              ~arguments[i].positional /\ arguments[i].name = f[1]

\* as Namespace, but a flag's value is dropped and its default is kept
Namespace_defaults(arguments, argv) ==
    LET pos == Positionals(arguments)
        names == {arguments[i].name : i \in DOMAIN arguments}
        posIndex(n) == CHOOSE i \in DOMAIN pos : pos[i].name = n
        arg(n) == arguments[CHOOSE i \in DOMAIN arguments : arguments[i].name = n]
    IN  [n \in names |->
           IF arg(n).positional THEN argv.positional[posIndex(n)]
           ELSE arg(n).default.value]

\* vars(parser.parse_args(args)) without _func
Namespace(arguments, argv) ==
    LET pos == Positionals(arguments)
        names == {arguments[i].name : i \in DOMAIN arguments}
        posIndex(n) == CHOOSE i \in DOMAIN pos : pos[i].name = n
        arg(n) == arguments[CHOOSE i \in DOMAIN arguments : arguments[i].name = n]
    IN  [n \in names |->
           IF arg(n).positional THEN argv.positional[posIndex(n)]
           ELSE IF \E f \in argv.flags : f[1] = n
                THEN (CHOOSE f \in argv.flags : f[1] = n)[2]
                ELSE arg(n).default.value]

StrKeys(names) == {[type |-> "str", name |-> n] : n \in names}

(***************************************************************************)
(* Initial state: Program.execute has built the Configuration and the      *)
(* Router; parse has not been called yet.                                  *)
(***************************************************************************)
IdleRequest ==
    [pc |-> "idle", path |-> << >>, operation_name |-> << >>,
     post_data |-> None, post_vars |-> << >>, format |-> None, failure |-> None, controller |-> 0, headers |-> << >>, bodies |-> << >>,
     writing |-> 0, handling |-> FALSE, keep_alive |-> FALSE, raised |-> None,
     body_read |-> FALSE, constructed |-> FALSE, invoked |-> FALSE,
     hangs |-> FALSE, lost |-> FALSE, eligible |-> FALSE]

Init ==
    /\ controller \in Providers
    /\ configuration \in [rpc_enabled : BOOLEAN]
    /\ payload_type \in {"bytes", "str"}
    /\ router \in RouterBuilt(controller)
    /\ cli_pc = IF router.ok THEN "constructed" ELSE "init_failed"
    /\ cli_args = None
    /\ cli_run = None
    /\ output = << >>
    /\ usage_printed = FALSE
    /\ cli_exc = None
    /\ socket_bound = FALSE
    /\ loop_state = "stopped"
    /\ loop_runs = 0
    /\ running = 0
    /\ next_ctx = 1
    /\ contexts = {}
    /\ passed = {}
    /\ calls = 0
    /\ invocations = {}
    /\ rendered = << >>
    /\ req = [r \in Requests |-> IdleRequest]

(***************************************************************************)
(* Router.parse                                                            *)
(***************************************************************************)
\* as ParseNoSubcommand, but the event loop is run once before parse returns
ParseNoSubcommand_loop(argv) ==
    /\ cli_pc = "constructed"
    /\ argv.sub = << >>
    /\ cli_args' = argv
    /\ usage_printed' = TRUE
    /\ loop_runs' = loop_runs + 1
    /\ cli_pc' = "returned"
    /\ UNCHANGED << envVars, rendered, cli_run, output, cli_exc, socket_bound, loop_state,
                    running, next_ctx, contexts, passed, calls, invocations, req >>

\* parse with no subcommand: _func is absent, print_usage is called
ParseNoSubcommand(argv) ==
    /\ cli_pc = "constructed"
    /\ argv.sub = << >>
    /\ cli_args' = argv
    /\ usage_printed' = TRUE
    /\ cli_pc' = "returned"
    /\ UNCHANGED << envVars, rendered, cli_run, output, cli_exc, socket_bound, loop_state,
                    loop_runs, running, next_ctx, contexts, passed, calls, invocations, req >>

\* argparse rejects the vector (unknown subcommand, missing positional, unknown
\* flag): parse_args raises SystemExit before any function is called
ParseRejected(argv) ==
    /\ cli_pc = "constructed"
    /\ argv.sub # << >>
    /\ LET sp == Choice(router.subparsers, argv.sub)
       IN  sp = None \/ (sp # None /\ ~ArgsAccepted(sp.arguments, argv))
    /\ cli_args' = argv
    /\ cli_exc' = SystemExitExc
    /\ cli_pc' = "raised"
    /\ UNCHANGED << envVars, rendered, cli_run, output, usage_printed, socket_bound,
                    loop_state, loop_runs, running, next_ctx, contexts, passed, calls, invocations, req >>

\* parse of an operation subcommand: the decorator of _execute_operation
\* constructs the controller and starts the event loop on coroutine_wrapper,
\* which calls the operation
_execute_operation(argv) ==
    /\ cli_pc = "constructed"
    /\ argv.sub # << >>
    /\ LET sp == Choice(router.subparsers, argv.sub)
       IN  /\ sp # None
           /\ sp.func = "_execute_operation"
           /\ ArgsAccepted(sp.arguments, argv)
           /\ LET ns == Namespace(sp.arguments, argv)
                  kwargs == StrKeys(DOMAIN ns \ {"txformat"})
                  id == ControllerId(next_ctx)
              IN  /\ contexts' = contexts \cup
                        {NewController(id, << "cli" >>, Str(ns["txformat"]))}
                  /\ next_ctx' = next_ctx + 1
                  /\ invocations' = invocations \cup
                        {Invocation(<< "cli" >>, id, sp.name, kwargs)}
                  /\ passed' = passed \cup {id}
                  /\ calls' = calls + 1
                  /\ cli_run' = [operation |-> sp.name, controller |-> id,
                                 kwargs |-> [n \in DOMAIN ns \ {"txformat"} |-> ns[n]],
                                 outcome |-> None]
    /\ cli_args' = argv
    /\ loop_state' = "run_until_complete"
    /\ loop_runs' = loop_runs + 1
    /\ cli_pc' = "running"
    /\ UNCHANGED << envVars, rendered, output, usage_printed, cli_exc, socket_bound,
                    running, req >>

\* what coroutine_wrapper does with the way the operation ended: the text it
\* writes (None when it writes nothing) and the failure it lets through
CliWritten(outcome) ==
    IF outcome.kind = "return"
    THEN IF JsonSerializable(outcome.value)
         THEN [line |-> [kind |-> "result", text |-> outcome.value], exc |-> None]
         ELSE [line |-> None, exc |-> DumpTypeErrorExc]
    ELSE IF outcome.exc.base = "ControllerError"
         THEN [line |-> [kind |-> "error", text |-> outcome.exc.text], exc |-> None]
         ELSE IF outcome.exc.base = "TransactionBuilderError"
              THEN [line |-> [kind |-> "error", text |-> outcome.exc.cls], exc |-> None]
              ELSE [line |-> None, exc |-> outcome.exc]

\* the operation ends; coroutine_wrapper writes and run_until_complete returns
\* or re-raises
CliOperationEnds(outcome) ==
    /\ cli_pc = "running"
    /\ LET w == CliWritten(outcome)
       IN  /\ output' = IF w.line = None THEN output ELSE Append(output, w.line)
           /\ cli_exc' = w.exc
           /\ cli_pc' = IF w.exc = None THEN "returned" ELSE "raised"
    /\ cli_run' = [cli_run EXCEPT !.outcome = outcome]
    /\ loop_state' = "stopped"
    /\ contexts' = {c \in contexts : c.owner # << "cli" >>}
    /\ invocations' = {i \in invocations : i.by # << "cli" >>}
    /\ UNCHANGED << envVars, rendered, cli_args, usage_printed, socket_bound, loop_runs,
                    running, next_ctx, passed, calls, req >>

(***************************************************************************)
(* Router._run_rpc_server                                                  *)
(***************************************************************************)
RpcDisabledLine == [kind |-> "error", text |-> "RPC must be enabled in the configuration."]
StartingLine == [kind |-> "info", text |-> "Starting RPC server on port"]

\* as RpcEnabled, but the test is left out
RpcEnabled_unchecked(cfg) == TRUE

\* the test of line 272
RpcEnabled(cfg) == cfg.rpc_enabled

IsServerCommand(argv) ==
    /\ argv.sub # << >>
    /\ LET sp == Choice(router.subparsers, argv.sub)
       IN  sp # None /\ sp.func = "_run_rpc_server"

\* RPC is not enabled: one error line, then return
RunRpcServerDisabled(argv) ==
    /\ cli_pc = "constructed"
    /\ IsServerCommand(argv)
    /\ ~RpcEnabled(configuration)
    /\ cli_args' = argv
    /\ output' = Append(output, RpcDisabledLine)
    /\ cli_pc' = "returned"
    /\ UNCHANGED << envVars, rendered, cli_run, usage_printed, cli_exc, socket_bound,
                    loop_state, loop_runs, running, next_ctx, contexts, passed, calls, invocations, req >>

\* run_until_complete(create_server(...)): the socket is bound, or binding
\* fails and the failure leaves parse
CreateServer(argv, bound) ==
    /\ cli_pc = "constructed"
    /\ IsServerCommand(argv)
    /\ RpcEnabled(configuration)
    /\ cli_args' = argv
    /\ loop_runs' = loop_runs + 1
    /\ socket_bound' = bound
    /\ cli_exc' = IF bound THEN None ELSE BindExc
    /\ cli_pc' = IF bound THEN "bound" ELSE "raised"
    /\ UNCHANGED << envVars, rendered, cli_run, output, usage_printed, loop_state,
                    running, next_ctx, contexts, passed, calls, invocations, req >>

\* the 'Starting RPC server' line, then run_forever
RunForever ==
    /\ cli_pc = "bound"
    /\ output' = Append(output, StartingLine)
    /\ loop_state' = "run_forever"
    /\ loop_runs' = loop_runs + 1
    /\ cli_pc' = "serving"
    /\ UNCHANGED << envVars, rendered, cli_args, cli_run, usage_printed, cli_exc,
                    socket_bound, running, next_ctx, contexts, passed,
                    calls, invocations, req >>

(***************************************************************************)
(* RpcServer: helpers                                                      *)
(***************************************************************************)
Slash(name) == << "/" >> \o name

\* the request paths the server is sent
Paths ==
    { Slash(ISSUE), Slash(ISSUE) \o Slash(<< "x" >>), << "/" >>,
      Slash(PRIVATE), Slash(ABSENT), Slash(MRO) }

\* as RegexSearch, but without the '$' anchor: the word after the first '/'
RegexSearch_unanchored(path) ==
    IF Len(path) >= 2 /\ path[1] = "/" /\ path[2] \in WordChars
    THEN LET stop == IF \E i \in 2..Len(path) : path[i] \notin WordChars
                     THEN CHOOSE i \in 2..Len(path) :
                              /\ path[i] \notin WordChars
                              /\ \A j \in 2..(i-1) : path[j] \in WordChars
                     ELSE Len(path) + 1
         IN  [operation |-> SubSeq(path, 2, stop - 1)]
    ELSE None

\* re.search('^/(?P<operation>\w+)$', path): the captured group, or None
RegexSearch(path) ==
    IF /\ Len(path) >= 2
       /\ path[1] = "/"
       /\ \A i \in 2..Len(path) : path[i] \in WordChars
    THEN [operation |-> SubSeq(path, 2, Len(path))]
    ELSE None

\* the test of line 101 on the captured name and the looked-up attribute
NameRejected(operation_name, operation) ==
    \/ operation_name = << >>
    \/ operation_name[1] = "_"
    \/ operation = None

\* the URL-encoded form bodies the server is sent: name=value fields in order
Field(n, v) == [name |-> n, value |-> v]

Bodies ==
    { << >>,
      << Field("a", "1") >>,
      << Field("a", "1"), Field("z", "1") >>,
      << Field("a", "1"), Field("txformat", "json") >>,
      << Field("a", "1"), Field("txformat", "raw") >> }

\* urllib.parse.parse_qs(post_data): every name maps to the list of its values;
\* the keys have the type of post_data (bytes in, bytes out)
parse_qs(post_data) ==
    LET fields == post_data.fields
        keys == {[type |-> post_data.type, name |-> fields[i].name] : i \in DOMAIN fields}
        values(n) == LET mine == SelectSeq(fields, LAMBDA f : f.name = n)
                     IN  [i \in DOMAIN mine |-> mine[i].value]
    IN  [k \in keys |-> values(k.name)]

TxFormatKey == [type |-> "str", name |-> "txformat"]

\* post_vars.pop('txformat', 'json'): the value returned
PopTxFormat(post_vars) ==
    IF TxFormatKey \in DOMAIN post_vars THEN List(post_vars[TxFormatKey]) ELSE Str("json")

\* post_vars after the pop
AfterPop(post_vars) ==
    [k \in DOMAIN post_vars \ {TxFormatKey} |-> post_vars[k]]

Msg(text, name) == [text |-> text, name |-> name]

ErrorEnvelope(code, message) ==
    [error |-> [code |-> code, message |-> message]]

InternalEnvelope(exception) ==
    [error |-> [code |-> 0, message |-> Msg("Internal server error", << >>),
                details |-> exception.text]]

\* create_response(status, message): the headers go out at once
create_response(q, status) ==
    [q EXCEPT !.headers = Append(@, status), !.writing = status]

\* json_response(response, data) up to the wait on write_eof
json_response(q, data) ==
    [q EXCEPT !.bodies = Append(@, [status |-> q.writing, data |-> data]),
              !.pc = "Writing"]

\* as error, but the envelope goes out with the status of a success
error_with_200(q, code, message) ==
    json_response(create_response(q, 200), ErrorEnvelope(code, message))

\* RpcServer.error(code, error, message)
error(q, code, message) ==
    json_response(create_response(q, 400), ErrorEnvelope(code, message))

\* the handler of 'except Exception' at the end of handle_request
InternalError(q, exception) ==
    json_response(create_response([q EXCEPT !.handling = TRUE], 500),
                  InternalEnvelope(exception))

\* the failure the try block around the operation call raised: from binding
\* the call's arguments ("call") or from inside the operation ("operation")
Failed(q, exc, origin) == [q EXCEPT !.failure = [exc |-> exc, origin |-> origin]]

\* as OperationFailed, but a builder error is reported with its message text
OperationFailed_str(q, exc) ==
    IF exc.base = "TypeError"
    THEN error(q, 104, Msg("Invalid parameters provided", << >>))
    ELSE IF exc.base \in {"ControllerError", "TransactionBuilderError"}
         THEN error(q, IF exc.base = "ControllerError" THEN 201 ELSE 301,
                    Msg(exc.text, << >>))
         ELSE InternalError(q, exc)

\* the except clauses around the operation call, in order
OperationFailed(q, exc) ==
    IF exc.base = "TypeError"
    THEN error(q, 104, Msg("Invalid parameters provided", << >>))
    ELSE IF exc.base = "ControllerError"
         THEN error(q, 201, Msg(exc.text, << >>))
         ELSE IF exc.base = "TransactionBuilderError"
              THEN error(q, 301, Msg(exc.cls, << >>))
              ELSE InternalError(q, exc)

\* lines 125-126: the 200 response and its body
OperationReturned(q, result) ==
    LET sent == create_response(q, 200)
    IN  IF JsonSerializable(result)
        THEN json_response(sent, [result |-> result])
        ELSE InternalError(sent, DumpTypeErrorExc)

\* as LoopFree, but an operation that waits for its backend holds the loop
LoopFree_blocking ==
    running = 0 /\ \A q \in Requests : req[q].pc # "Dispatched"

\* the event loop is cooperative: it resumes a waiting task only when no
\* other task is running, and a running task keeps the loop until it waits
LoopFree == running = 0

\* the loop can start or resume the coroutine of request r
Resumable(r) == loop_state = "run_forever" /\ LoopFree

\* the coroutine of request r is the one running
Running(r) == loop_state = "run_forever" /\ running = r

\* the points where handle_request waits: payload.read(), the operation,
\* write_eof(); and its end
Waits(pc) == pc \in {"OperationResolved", "Dispatched", "Writing", "Responded", "Crashed"}

\* who runs after the coroutine of r reached q
Yield(r, q) == IF Waits(q.pc) THEN 0 ELSE r

\* handle_request ends (it returns, or a failure leaves it): the coroutine's
\* frame is released with its locals and the response objects it created;
\* the protocol keeps its keep-alive setting
Finished(q, pc, exc) ==
    [IdleRequest EXCEPT !.pc = pc, !.raised = exc, !.keep_alive = q.keep_alive,
                        !.eligible = q.eligible]

\* as KeepAlive, but keep-alive is enabled without asking the response
KeepAlive_unasked(q, eligible) ==
    IF q.writing = 200 /\ ~q.handling
    THEN [q EXCEPT !.eligible = eligible, !.keep_alive = TRUE]
    ELSE q

\* lines 128-129, reached only when the write of the 200 response returned:
\* response.keep_alive() is asked (eligible is its answer) and keep-alive is
\* enabled on the protocol when it says so
KeepAlive(q, eligible) ==
    IF q.writing = 200 /\ ~q.handling
    THEN [q EXCEPT !.eligible = eligible,
                   !.keep_alive = IF eligible THEN TRUE ELSE @]
    ELSE q

(***************************************************************************)
(* RpcServer.handle_request, one action per stage                          *)
(***************************************************************************)
\* a request arrives and the loop starts its handle_request coroutine
Receive(r, path) ==
    /\ Resumable(r)
    /\ req[r].pc = "idle"
    /\ \A q \in Requests : q < r => req[q].pc # "idle"
    /\ req' = [req EXCEPT ![r].pc = "Received", ![r].path = path]
    /\ running' = r
    /\ UNCHANGED << envVars, rendered, cliVars, next_ctx, contexts, passed, calls, invocations >>

\* lines 92-95
CheckPath(r) ==
    /\ Running(r)
    /\ req[r].pc = "Received"
    /\ LET url == RegexSearch(req[r].path)
       IN  req' = [req EXCEPT ![r] =
                IF url = None
                THEN error(@, 102, Msg("The request path is invalid", << >>))
                ELSE [@ EXCEPT !.pc = "PathChecked",
                               !.operation_name = url.operation]]
    /\ running' = Yield(r, req'[r])
    /\ UNCHANGED << envVars, rendered, cliVars, next_ctx, contexts, passed, calls, invocations >>

\* lines 98-103; a resolved request goes on to wait for payload.read()
ResolveOperation(r) ==
    /\ Running(r)
    /\ req[r].pc = "PathChecked"
    /\ LET name == req[r].operation_name
           operation == GetAttr(controller, name)
       IN  req' = [req EXCEPT ![r] =
                IF NameRejected(name, operation)
                THEN error(@, 103, Msg("The operation name is invalid", name))
                ELSE [@ EXCEPT !.pc = "OperationResolved"]]
    /\ running' = Yield(r, req'[r])
    /\ UNCHANGED << envVars, rendered, cliVars, next_ctx, contexts, passed, calls, invocations >>

\* lines 106-109: the body has arrived and is decoded, txformat is popped
ReadBody(r, body) ==
    /\ Resumable(r)
    /\ req[r].pc = "OperationResolved"
    /\ LET post_data == [type |-> payload_type, fields |-> body]
           post_vars == parse_qs(post_data)
       IN  req' = [req EXCEPT ![r].pc = "BodyParsed",
                              ![r].body_read = TRUE,
                              ![r].post_data = post_data,
                              ![r].format = PopTxFormat(post_vars),
                              ![r].post_vars = AfterPop(post_vars)]
    /\ running' = r
    /\ UNCHANGED << envVars, rendered, cliVars, next_ctx, contexts, passed, calls, invocations >>

\* lines 111-117: the controller is constructed from the popped format and the
\* operation is called with post_vars; a call whose arguments do not bind
\* raises TypeError at once, otherwise the operation starts and waits for its
\* backend (for ever when hangs)
Dispatch(r, hangs) ==
    /\ Running(r)
    /\ req[r].pc = "BodyParsed"
    /\ LET id == ControllerId(next_ctx)
           operation == GetAttr(controller, req[r].operation_name)
           keys == DOMAIN req[r].post_vars
           q == [req[r] EXCEPT !.controller = id, !.constructed = TRUE,
                               !.post_data = None, !.post_vars = << >>,
                               !.format = None]
       IN  /\ contexts' = contexts \cup {NewController(id, << "rpc", r >>, req[r].format)}
           /\ next_ctx' = next_ctx + 1
           /\ IF BindsOk(operation, keys)
              THEN /\ invocations' = invocations \cup
                          {Invocation(<< "rpc", r >>, id, operation.name, keys)}
                   /\ passed' = passed \cup {id}
                   /\ calls' = calls + 1
                   /\ req' = [req EXCEPT ![r] =
                                [q EXCEPT !.pc = "Dispatched", !.invoked = TRUE,
                                          !.hangs = hangs]]
              ELSE /\ hangs = FALSE
                   /\ UNCHANGED << invocations, passed, calls >>
                   /\ req' = [req EXCEPT ![r] =
                                OperationFailed(Failed(q, CallTypeErrorExc, "call"),
                                                CallTypeErrorExc)]
    /\ running' = Yield(r, req'[r])
    /\ UNCHANGED << envVars, rendered, cliVars >>

\* as Completes, but the wait on the operation is given up after a while
Completes_timeout(q) == TRUE

\* 'yield from operation(...)' of line 114 is resumed only by the operation's
\* own result or failure
Completes(q) == ~q.hangs

\* lines 114-126: the operation ends and the handler answers
OperationEnds(r, outcome) ==
    /\ Resumable(r)
    /\ req[r].pc = "Dispatched"
    /\ Completes(req[r])
    /\ req' = [req EXCEPT ![r] =
                 IF outcome.kind = "return"
                 THEN OperationReturned(@, outcome.value)
                 ELSE OperationFailed(Failed(@, outcome.exc, "operation"),
                                      outcome.exc)]
    /\ invocations' = {i \in invocations : i.by # << "rpc", r >>}
    /\ UNCHANGED << envVars, rendered, cliVars, running, next_ctx, contexts, passed, calls >>

\* the wait on response.write_eof() ends: the body is flushed, or the
\* connection is lost and write_eof raises (a lost connection stays lost)
WriteEof(r, flushed, eligible) ==
    /\ Resumable(r)
    /\ req[r].pc = "Writing"
    /\ req[r].lost => ~flushed
    /\ eligible => (flushed /\ req[r].writing = 200 /\ ~req[r].handling)
    /\ req' = [req EXCEPT ![r] =
                 IF flushed
                 THEN Finished(KeepAlive(@, eligible), "Responded", None)
                 ELSE IF ~req[r].handling
                      THEN InternalError([@ EXCEPT !.lost = TRUE], ConnectionExc)
                      ELSE Finished(@, "Crashed", ConnectionExc)]
    /\ contexts' = IF req'[r].pc \in {"Responded", "Crashed"}
                   THEN {c \in contexts : c.owner # << "rpc", r >>}
                   ELSE contexts
    /\ UNCHANGED << envVars, rendered, cliVars, running, next_ctx, passed, calls, invocations >>

(***************************************************************************)
(* Specification                                                           *)
(***************************************************************************)
Next ==
    \/ \E argv \in CliInputs : ParseNoSubcommand(argv)
    \/ \E argv \in CliInputs : ParseRejected(argv)
    \/ \E argv \in CliInputs : _execute_operation(argv)
    \/ \E outcome \in Outcomes : CliOperationEnds(outcome)
    \/ \E argv \in CliInputs : RunRpcServerDisabled(argv)
    \/ \E argv \in CliInputs, bound \in BOOLEAN : CreateServer(argv, bound)
    \/ RunForever
    \/ \E r \in Requests, path \in Paths : Receive(r, path)
    \/ \E r \in Requests : CheckPath(r)
    \/ \E r \in Requests : ResolveOperation(r)
    \/ \E r \in Requests, body \in Bodies : ReadBody(r, body)
    \/ \E r \in Requests, hangs \in BOOLEAN : Dispatch(r, hangs)
    \/ \E r \in Requests, outcome \in Outcomes : OperationEnds(r, outcome)
    \/ \E r \in Requests, flushed \in BOOLEAN, eligible \in BOOLEAN :
          WriteEof(r, flushed, eligible)

Spec == Init /\ [][Next]_vars

\* every coroutine the loop has started gets to run again, every body and
\* every awaited write ends, and an operation that does not hang ends
Fairness ==
    \A r \in Requests :
        /\ WF_vars(CheckPath(r))
        /\ WF_vars(ResolveOperation(r))
        /\ WF_vars(\E body \in Bodies : ReadBody(r, body))
        /\ WF_vars(\E hangs \in BOOLEAN : Dispatch(r, hangs))
        /\ WF_vars(\E outcome \in Outcomes : OperationEnds(r, outcome))
        /\ WF_vars(\E flushed \in BOOLEAN, eligible \in BOOLEAN :
                      WriteEof(r, flushed, eligible))

FairSpec == Spec /\ Fairness

(***************************************************************************)
(* The formatter on its own: formatters are selected and applied to values *)
(***************************************************************************)
FormatterInit ==
    /\ Init
    /\ controller = PlainProvider
    /\ configuration = [rpc_enabled |-> FALSE]
    /\ payload_type = "str"

\* get_transaction_formatter(format)(value)
Render(format, value) ==
    /\ Len(rendered) < MaxCalls
    /\ rendered' = Append(rendered,
            [format |-> format, value |-> value,
             result |-> get_transaction_json(get_transaction_formatter(format), value)])
    /\ UNCHANGED << envVars, cliVars, rpcVars >>

FormatterNext == \E format \in Formats, value \in Values : Render(format, value)

FormatterSpec == FormatterInit /\ [][FormatterNext]_vars

(***************************************************************************)
(* Properties                                                              *)
(***************************************************************************)
RecognizedCodes == {102, 103, 104, 201, 301}

IsErrorBody(b) == "error" \in DOMAIN b.data

\* the operations the Router exposes as subcommands
RegistryOperations ==
    {router.subparsers[i].name : i \in
        {j \in DOMAIN router.subparsers :
            router.subparsers[j].func = "_execute_operation"}}

\* the names of the provider's functions that do not start with '_'
PublicFunctions ==
    {controller[i].name : i \in
        {j \in DOMAIN controller :
            controller[j].kind = "function" /\ controller[j].name[1] # "_"}}

\* C1: every body handle_request writes goes out through a response whose
\* status agrees with the body: an envelope with code 102, 103, 104, 201 or
\* 301 with status 400, an envelope with code 0 with status 500, a result
\* (no envelope) with status 200; there is no other (status, code) pair.
C1_StatusAgreesWithCode ==
    \A r \in Requests : \A i \in DOMAIN req[r].bodies :
        LET b == req[r].bodies[i]
        IN  IF IsErrorBody(b)
            THEN \/ b.data.error.code \in RecognizedCodes /\ b.status = 400
                 \/ b.data.error.code = 0 /\ b.status = 500
            ELSE b.status = 200

\* one request answers a recognized failure while another answers an
\* unrecognized one
C1_Witness ==
    \E r, q \in Requests :
        /\ req[r].bodies # << >> /\ req[r].bodies[1].status = 400
        /\ req[q].bodies # << >> /\ req[q].bodies[Len(req[q].bodies)].status = 500

\* C2: a request gets past operation resolution only if the captured name is
\* an operation of the registry; for any other captured name the answer is
\* the 103 envelope with status 400, no body is read, no controller is
\* constructed and nothing is called.
C2_OnlyRegistryOperationsDispatched ==
    \A r \in Requests :
        (req[r].operation_name # << >> /\ req[r].pc # "PathChecked")
            => IF req[r].operation_name \in RegistryOperations
               THEN TRUE
               ELSE /\ req[r].pc = "Writing"
                    /\ req[r].bodies[1].status = 400
                    /\ IsErrorBody(req[r].bodies[1])
                    /\ req[r].bodies[1].data.error.code = 103
                    /\ ~req[r].body_read
                    /\ ~req[r].constructed
                    /\ ~req[r].invoked

\* C3: a failure raised from inside the operation that is neither a controller
\* error nor a transaction-builder error is answered with status 500 and the
\* envelope of code 0, 'Internal server error' and the failure text as details.
C3_UnrecognizedFailureIs500 ==
    \A r \in Requests :
        (/\ req[r].pc = "Writing"
         /\ req[r].failure # None
         /\ req[r].failure.origin = "operation"
         /\ req[r].failure.exc.base \notin {"ControllerError", "TransactionBuilderError"})
            => /\ req[r].headers[1] = 500
               /\ req[r].bodies[1] =
                    [status |-> 500, data |-> InternalEnvelope(req[r].failure.exc)]

\* C4: a controller error raised by the operation is answered with status 400
\* and the envelope of code 201 and the failure's message text; a
\* transaction-builder error with status 400 and the envelope of code 301 and
\* the name of the failure's class; the envelope has no details field.
C4_RecognizedFailureEnvelope ==
    \A r \in Requests :
        (/\ req[r].pc = "Writing"
         /\ req[r].failure # None
         /\ req[r].failure.exc.base \in {"ControllerError", "TransactionBuilderError"})
            => LET exc == req[r].failure.exc
                   first == req[r].bodies[1]
               IN  /\ req[r].headers[1] = 400
                   /\ first.status = 400
                   /\ IsErrorBody(first)
                   /\ DOMAIN first.data.error = {"code", "message"}
                   /\ exc.base = "ControllerError"
                        => /\ first.data.error.code = 201
                           /\ first.data.error.message = Msg(exc.text, << >>)
                   /\ exc.base = "TransactionBuilderError"
                        => /\ first.data.error.code = 301
                           /\ first.data.error.message = Msg(exc.cls, << >>)

\* a transaction-builder error, whose class name differs from its text, is
\* being answered
C4_Witness ==
    \E r \in Requests :
        /\ req[r].pc = "Writing"
        /\ req[r].failure # None
        /\ req[r].failure.exc.base = "TransactionBuilderError"
        /\ req[r].failure.exc.cls # req[r].failure.exc.text
        /\ Len(req[r].bodies) = 1

\* the values of the txformat fields of a form body, in order
TxFormatValues(fields) ==
    LET mine == SelectSeq(fields, LAMBDA f : f.name = "txformat")
    IN  [i \in DOMAIN mine |-> mine[i].value]

\* C5: after the body is parsed, the formatter is the one the CLI selects for
\* the same txformat value ('json' when the field is absent) and the named
\* arguments left for the operation do not contain txformat.
C5_TxFormatSelectsFormatter ==
    \A r \in Requests :
        req[r].pc = "BodyParsed"
            => LET given == TxFormatValues(req[r].post_data.fields)
                   chosen == get_transaction_formatter(req[r].format)
               IN  /\ given = << >> => chosen = "json"
                   /\ given # << >> =>
                        chosen = get_transaction_formatter(Str(given[Len(given)]))
                   /\ \A k \in DOMAIN req[r].post_vars : k.name # "txformat"

\* C6: the operation subcommands are exactly the provider's public functions
\* other than one named 'server'; there is one 'server' subcommand, bound to
\* the RPC launcher, and no two subcommands share a name.
C6_RegistryIsPublicOperations ==
    /\ RegistryOperations = PublicFunctions \ {SERVER}
    /\ Cardinality({i \in DOMAIN router.subparsers :
                        router.subparsers[i].name = SERVER}) = 1
    /\ Choice(router.subparsers, SERVER).func = "_run_rpc_server"
    /\ ~HasConflict(router.subparsers)
    /\ router.ok

\* C7: an operation call in progress has a controller that was constructed
\* for it; no two calls, in progress or past, got the same controller; two
\* live controllers share the configuration, the cache factory and the event
\* loop, and nothing else.
C7_ContextOwnedByOneInvocation ==
    /\ \A i \in invocations :
          \E c \in contexts : c.id = i.ctx /\ c.owner = i.by
    /\ \A i, j \in invocations : i # j => i.ctx # j.ctx
    /\ Cardinality(passed) = calls
    /\ \A c, d \in contexts :
          c # d => /\ c.id # d.id
                   /\ c.tx_parser.closure # d.tx_parser.closure
                   /\ c.configuration = d.configuration
                   /\ c.cache_factory = d.cache_factory
                   /\ c.event_loop = d.event_loop

\* the operations of two requests are in progress at the same time
C7_Witness ==
    \E i, j \in invocations : i.by # j.by

\* where handle_request of r cannot go on for reasons of its own: it has
\* ended (with its answer written, or with its connection lost), or its own
\* operation never completes
Settled(r) ==
    \/ req[r].pc \in {"Responded", "Crashed"}
    \/ req[r].pc = "Dispatched" /\ req[r].hangs

\* C8: under fair scheduling every request that was received is answered,
\* unless its own connection is lost or its own operation never completes:
\* no request waits for the operation of another request.
C8_NoRequestBlocksAnother ==
    \A r \in Requests : (req[r].pc = "Received") ~> Settled(r)

\* a later request has been answered while the operation of an earlier one
\* is still suspended
C8_Witness ==
    \E r, q \in Requests :
        /\ q < r
        /\ req[q].pc = "Dispatched"
        /\ req[r].pc = "Responded"

CliDone == cli_pc \in {"returned", "raised"} /\ cli_run # None

\* C9: when the operation of a CLI run has ended: after a controller error or
\* a transaction-builder error the output is the one line 'Error: <text>'
\* and parse returns; after a success the output is the one JSON result and
\* parse returns; after any other failure nothing is written and the failure
\* leaves parse.
C9_CliOutput ==
    CliDone =>
        LET outcome == cli_run.outcome
        IN  IF outcome.kind = "return"
            THEN /\ output = << [kind |-> "result", text |-> outcome.value] >>
                 /\ cli_pc = "returned"
            ELSE IF outcome.exc.base = "ControllerError"
                 THEN /\ output = << [kind |-> "error", text |-> outcome.exc.text] >>
                      /\ cli_pc = "returned"
                 ELSE IF outcome.exc.base = "TransactionBuilderError"
                      THEN /\ output = << [kind |-> "error", text |-> outcome.exc.cls] >>
                           /\ cli_pc = "returned"
                      ELSE /\ output = << >>
                           /\ cli_pc = "raised"
                           /\ cli_exc = outcome.exc

\* the subcommand bound to _run_rpc_server was given to parse
ServerCommandRun == cli_pc # "constructed" /\ cli_args # None /\ IsServerCommand(cli_args)

C10_State ==
    /\ (ServerCommandRun /\ ~configuration.rpc_enabled)
          => /\ output = << RpcDisabledLine >>
             /\ cli_pc = "returned"
             /\ ~socket_bound
             /\ loop_runs = 0
             /\ loop_state = "stopped"
             /\ next_ctx = 1 /\ contexts = {}
             /\ \A r \in Requests : req[r].pc = "idle"
    /\ (ServerCommandRun /\ configuration.rpc_enabled)
          => /\ StartingLine \in {output[i] : i \in DOMAIN output} => socket_bound
             /\ loop_state = "run_forever" => output = << StartingLine >>

\* C10: run without RPC enabled, the server subcommand writes one error line
\* and returns: no socket is bound, the loop never runs, no controller is
\* constructed; with RPC enabled the socket is bound before the 'Starting RPC
\* server' line is written, and once the loop runs forever parse never returns.
C10_ServerCommand ==
    /\ []C10_State
    /\ [][cli_pc = "serving" => cli_pc' = "serving" /\ loop_state' = "run_forever"]_vars

\* the server subcommand has returned after its error line
C10_Witness ==
    /\ ServerCommandRun
    /\ ~configuration.rpc_enabled
    /\ cli_pc = "returned"
    /\ output = << RpcDisabledLine >>

\* what the 'raw' formatter returns for value
RawRendering(value) == get_transaction_json(get_transaction_formatter(Str("raw")), value)

\* C11: whatever calls were made before, a formatter selected with any format
\* string returns a value that is no ledger transaction unchanged; for a ledger
\* transaction every format string other than 'json' returns what 'raw' returns,
\* the hex text of the transaction's serialization, and 'json' returns the
\* structured object with the transaction's version, lock time, inputs and
\* outputs.
C11_FormatterContract ==
    \A k \in DOMAIN rendered :
        LET call == rendered[k]
        IN  /\ ~IsTransaction(call.value) => call.result = call.value
            /\ (IsTransaction(call.value) /\ call.format # Str("json"))
                  => /\ call.result.t = "str"
                     /\ call.result.v = b2x(serialize(call.value.v))
                     /\ call.result = RawRendering(call.value)
            /\ (IsTransaction(call.value) /\ call.format = Str("json"))
                  => /\ call.result.t = "dict"
                     /\ call.result.v.version = call.value.v.nVersion
                     /\ call.result.v.locktime = call.value.v.nLockTime
                     /\ Len(call.result.v.vin) = Len(call.value.v.vin)
                     /\ Len(call.result.v.vout) = Len(call.value.v.vout)
                     /\ \A i \in DOMAIN call.value.v.vin :
                           /\ call.result.v.vin[i].txid
                                 = b2lx(call.value.v.vin[i].prevout.hash)
                           /\ call.result.v.vin[i].vout = call.value.v.vin[i].prevout.n
                     /\ \A i \in DOMAIN call.value.v.vout :
                           /\ call.result.v.vout[i].value = call.value.v.vout[i].nValue
                           /\ call.result.v.vout[i].n = i - 1
            /\ \A j \in DOMAIN rendered :
                  (rendered[j].format = call.format /\ rendered[j].value = call.value)
                      => rendered[j].result = call.result

\* a transaction with an input was rendered with 'json' and then with a format
\* string that is neither 'json' nor 'raw'
C11_Witness ==
    /\ Len(rendered) = 2
    /\ IsTransaction(rendered[1].value) /\ rendered[1].value.v.vin # << >>
    /\ rendered[1].format = Str("json")
    /\ rendered[2].value = rendered[1].value
    /\ rendered[2].format = Str("JSON")
    /\ rendered[2].result.t = "str"

\* the value given with flag name in the vector, or otherwise
FlagValue(argv, name, otherwise) ==
    IF \E f \in argv.flags : f[1] = name
    THEN (CHOOSE f \in argv.flags : f[1] = name)[2]
    ELSE otherwise

\* C12: while the operation of a CLI run is in progress, it was called with
\* exactly its declared parameters: the k-th parameter declared without a
\* default has the k-th positional value of the vector, a parameter declared
\* with a default has the value given with its --name flag or, without the
\* flag, the declared default; txformat is not among the arguments of the
\* call, and the controller's formatter is the one selected by the value
\* given with --txformat, or by 'json' without the flag.
C12_CliGrammar ==
    cli_pc = "running" =>
        LET function == Choice(router.subparsers, cli_args.sub).function
            declared == Tail(function.params)
            required == SelectSeq(declared, LAMBDA p : p.default = NoDefault)
            optional == SelectSeq(declared, LAMBDA p : p.default # NoDefault)
        IN  /\ DOMAIN cli_run.kwargs = {declared[i].name : i \in DOMAIN declared}
            /\ Len(cli_args.positional) = Len(required)
            /\ \A k \in DOMAIN required :
                  cli_run.kwargs[required[k].name] = cli_args.positional[k]
            /\ \A k \in DOMAIN optional :
                  cli_run.kwargs[optional[k].name]
                      = FlagValue(cli_args, optional[k].name, optional[k].default.value)
            /\ \E c \in contexts :
                  /\ c.id = cli_run.controller
                  /\ c.tx_parser.format
                        = get_transaction_formatter(
                              Str(FlagValue(cli_args, "txformat", "json")))
            /\ \A i \in invocations :
                  i.by = << "cli" >> =>
                      i.kwargs = StrKeys(DOMAIN cli_run.kwargs)

\* an operation with two required parameters runs with its optional parameter
\* and the format both given by flags
C12_Witness ==
    /\ cli_pc = "running"
    /\ cli_run.operation = SEND
    /\ cli_run.kwargs = [a |-> "1", c |-> "2", b |-> "9"]
    /\ \E f \in cli_args.flags : f[1] = "txformat"

\* the stages of a request, in order
StageRank(pc) ==
    CASE pc = "idle" -> 0
      [] pc = "Received" -> 1
      [] pc = "PathChecked" -> 2
      [] pc = "OperationResolved" -> 3
      [] pc = "BodyParsed" -> 4
      [] pc = "Dispatched" -> 5
      [] pc = "Writing" -> 6
      [] pc \in {"Responded", "Crashed"} -> 7

\* the path is '/' followed by one or more word characters and nothing else
PathMatches(path) ==
    /\ Len(path) >= 2
    /\ path[1] = "/"
    /\ \A i \in 2..Len(path) : path[i] \in {"_"} \cup Letters \cup Digits

\* the code of the first envelope request r was answered with, or -1
FirstCode(r) ==
    IF req[r].bodies # << >> /\ IsErrorBody(req[r].bodies[1])
    THEN req[r].bodies[1].data.error.code
    ELSE -1

C13_State ==
    \A r \in Requests :
        /\ req[r].pc \in {"PathChecked", "OperationResolved", "BodyParsed",
                          "Dispatched"} => PathMatches(req[r].path)
        /\ req[r].pc = "Writing"
              => /\ ~PathMatches(req[r].path) <=> FirstCode(r) = 102
                 /\ FirstCode(r) \in {102, 103}
                       => /\ ~req[r].body_read
                          /\ ~req[r].constructed
                          /\ ~req[r].invoked
                          /\ \A c \in contexts : c.owner # << "rpc", r >>
                          /\ \A i \in invocations : i.by # << "rpc", r >>

C13_Step ==
    \A r \in Requests :
        req'[r].pc # req[r].pc
            => \/ StageRank(req'[r].pc) = StageRank(req[r].pc) + 1
               \/ /\ req'[r].pc = "Writing"
                  /\ req[r].pc \in {"Received", "PathChecked", "BodyParsed"}

\* C13: a request moves from one stage to the next in the order Received,
\* PathChecked, OperationResolved, BodyParsed, Dispatched, answered, or goes
\* from a failing check straight to its answer; a path that is not '/' and
\* one or more word characters is answered with code 102, and a request
\* answered with 102 or 103 has read no body, constructed no controller and
\* called no operation.
C13_StagesInOrder == []C13_State /\ [][C13_Step]_vars

\* one request is answered with code 102 while another is answered with 103
C13_Witness ==
    \E r, q \in Requests :
        /\ req[r].pc = "Writing" /\ FirstCode(r) = 102
        /\ req[q].pc = "Writing" /\ FirstCode(q) = 103

\* C14: no failure leaves handle_request: whatever is raised at any stage,
\* writing a response included, handle_request ends by returning.
C14_NoFailureLeavesHandler ==
    \A r \in Requests :
        /\ req[r].raised = None
        /\ req[r].pc # "Crashed"

\* the operation call of request r is in progress
InProgress(r) == \E i \in invocations : i.by = << "rpc", r >>

C15_Step ==
    \A r \in Requests :
        req[r].pc = "Dispatched"
            => /\ req[r].headers = << >> /\ req[r].bodies = << >>
               /\ InProgress(r)
               /\ req'[r].headers # << >> => \A i \in invocations' : i.by # << "rpc", r >>
               /\ req[r].hangs => req'[r] = req[r]

\* C15: while a request is in the Dispatched stage nothing has been sent for
\* it; headers are sent for it only in the step in which its operation call
\* ends; and a request whose operation never completes stays in the
\* Dispatched stage, unanswered, whatever steps the other requests take.
C15_NoTimeout == [][C15_Step]_vars

\* a request whose operation never completes is still in the Dispatched stage
\* after all the other requests were answered
C15_Witness ==
    \E r \in Requests :
        /\ req[r].pc = "Dispatched" /\ req[r].hangs
        /\ \A q \in Requests \ {r} : req[q].pc = "Responded"

\* parse was called without a subcommand
NoSubcommandRun == cli_args # None /\ cli_args.sub = << >>

\* C16: once parse was called without a subcommand, the usage text is printed
\* and parse has returned; no controller was constructed, no operation was
\* called, the event loop was never run, no socket was bound and no request
\* was handled; and the usage text is printed in no other case.
C16_NoSubcommand ==
    /\ NoSubcommandRun
          => /\ usage_printed
             /\ cli_pc = "returned"
             /\ cli_exc = None
             /\ cli_run = None
             /\ output = << >>
             /\ next_ctx = 1 /\ contexts = {}
             /\ calls = 0 /\ passed = {} /\ invocations = {}
             /\ loop_runs = 0 /\ loop_state = "stopped"
             /\ ~socket_bound
             /\ \A r \in Requests : req[r] = IdleRequest
    /\ usage_printed => NoSubcommandRun

\* parse has returned from a call without a subcommand
C16_Witness ==
    /\ NoSubcommandRun
    /\ usage_printed
    /\ cli_pc = "returned"

\* C17: for every request, response headers are sent at most once and at most
\* one body is written, also when a failure occurs after the headers of the
\* 200 response were sent.
C17_AtMostOneResponse ==
    \A r \in Requests :
        /\ Len(req[r].headers) <= 1
        /\ Len(req[r].bodies) <= 1

C18_Step ==
    \A r \in Requests :
        /\ (req'[r].keep_alive /\ ~req[r].keep_alive)
              => /\ req[r].pc = "Writing"
                 /\ req[r].headers = << 200 >>
                 /\ Len(req[r].bodies) = 1
                 /\ req[r].bodies[1].status = 200
                 /\ ~IsErrorBody(req[r].bodies[1])
                 /\ req'[r].pc = "Responded"
                 /\ req'[r].eligible
        /\ (\E i \in DOMAIN req[r].bodies : IsErrorBody(req[r].bodies[i]))
              => ~req'[r].keep_alive

\* C18: keep-alive becomes enabled for a request only in the step in which
\* the write of its one response, a 200 result, has completed and the
\* response reported it is eligible; it is never enabled for a request that
\* was sent an error envelope.
C18_KeepAlive == [][C18_Step]_vars

\* one request was answered with keep-alive enabled, another without
C18_Witness ==
    \E r, q \in Requests :
        /\ req[r].pc = "Responded" /\ req[r].keep_alive
        /\ req[q].pc = "Responded" /\ ~req[q].keep_alive

====
